---- MODULE Spec2Model ----
(***************************************************************************)
(* Request-admission-and-caching layer of the recipe search endpoint:      *)
(* the sliding-window rate limiter (src/lib/rate-limiter.ts), the          *)
(* stale-while-revalidate response cache and the search POST handler.      *)
(*                                                                         *)
(* Two copies of the handler that use staleWhileRevalidate exist in the    *)
(* repository; the variable variant says which one is deployed:          *)
(*   "edge" : src/unnamed/part_003                                         *)
(*   "node" : src/app/api/image-generation/route.ts, lines 190-594         *)
(*                                                                         *)
(* Time is Date.now() in milliseconds.  The clock advances in jumps taken  *)
(* from TickSteps; several handlers may run at the same millisecond.       *)
(* Strings are sequences of tokens (one-character strings, or a lexeme     *)
(* such as the Markdown fence) so that the string surgery of the code is   *)
(* computed, not assumed.                                                  *)
(***************************************************************************)
EXTENDS Integers, Sequences, FiniteSets, Bags, TLC

(* ------------------------------ bounds -------------------------------- *)
\* jumps of the clock in a run (the endpoint as a whole takes half of them)
MaxTicks == 4
\* requests being handled, and revalidations scheduled, at one time
MaxInFlight == 1
MaxBackground == 1
\* jumps of the clock for the limiter on its own
MaxRateTicks == 4
\* recipes in one batch given to parseRecipeData
MaxBatch == 2

(* -------------------------- program constants -------------------------- *)
\* the time after which the browser gives up its own call of /api/search;
\* no timer or AbortSignal exists in the route handlers themselves
CLIENT_TIMEOUT == 30000
IMAGE_LIMIT == 10
IMAGE_WINDOW == 60000
limit == 5
interval == 60 * 1000
tokenCacheMax == 500
tokenCacheTtl == interval
RATE_LIMIT == 5
CACHE_TTL == 12 * 60 * 60 * 1000

(* ------------------------------ helpers -------------------------------- *)
Range(s) == {s[i] : i \in 1..Len(s)}

RemoveAll(s, x) == SelectSeq(s, LAMBDA e : e # x)

\* identities of the requests reaching the search handler
IPs == {"10.0.0.1"}

\* the jumps of the clock while the handler runs: half a CACHE_TTL, so that
\* lookups fall inside and on the borders of the fresh and stale periods
TickSteps == {CACHE_TTL \div 2}

\* identities and jumps of the clock for the limiter on its own
RateIPs == IPs \cup {"10.0.0.2"}
RateTickSteps == {20000, interval}

\* jumps of the clock under overlapping requests
OverlapTickSteps == {CACHE_TTL}

\* jumps of the clock for the image endpoint
ImageTickSteps == {IMAGE_WINDOW \div 2, IMAGE_WINDOW}

\* jumps of the clock for the endpoint as a whole
PostTickSteps == {interval \div 2, CACHE_TTL}

(* ------------------- lru-cache store of the limiter -------------------- *)
\* tokenCache maps an IP to [tokens, start]; an IP outside DOMAIN is absent.
\* lruOrder lists the stored IPs, least recently used first.
NoTokens == <<>>

\* an entry that expires a third of the interval after its last set
isStaleEarly(entry, t) == t - entry.start > tokenCacheTtl \div 3

isStale(entry, t) == t - entry.start > tokenCacheTtl

\* LRUCache.get: a stale entry reads as undefined (and is deleted)
cacheGet(cache, ip, t) ==
  IF ip \in DOMAIN cache /\ ~isStale(cache[ip], t) THEN cache[ip].tokens ELSE NoTokens

\* LRUCache.set: (re)insert as most recently used, restart the ttl,
\* evict the least recently used entry when the store is over capacity
\* a store that never evicts
orderAfterSetUnbounded(order, ip) == Append(RemoveAll(order, ip), ip)

orderAfterSet(order, ip) ==
  LET moved == Append(RemoveAll(order, ip), ip)
  IN IF Len(moved) > tokenCacheMax THEN Tail(moved) ELSE moved

cacheSet(cache, order, ip, tokens, t) ==
  LET newOrder == orderAfterSet(order, ip)
  IN [k \in Range(newOrder) |->
        IF k = ip THEN [tokens |-> tokens, start |-> t] ELSE cache[k]]

(* ----------------------------- rateLimit ------------------------------- *)
\* a timestamp exactly one interval old still counts
validTokensOfInclusive(token, t) == SelectSeq(token, LAMBDA time : time >= t - interval)

validTokensOf(token, t) == SelectSeq(token, LAMBDA time : time > t - interval)

\* the comparison off by one: a sixth call passes
isLimitedAbove(validTokens) == Len(validTokens) > limit

isLimited(validTokens) == Len(validTokens) >= limit

\* the value returned by rateLimit(ip) at time t; remaining is -1 where the
\* code leaves it undefined
rateLimitResult(cache, ip, t) ==
  LET validTokens == validTokensOf(cacheGet(cache, ip, t), t)
  IN IF isLimited(validTokens)
     THEN [limited |-> TRUE, remaining |-> -1,
           resetTime |-> validTokens[1] + interval]
     ELSE LET pushed == Append(validTokens, t)
          IN [limited |-> FALSE, remaining |-> limit - Len(pushed),
              resetTime |-> pushed[1] + interval]

\* the admitted call is not recorded
rateLimitTokensUncounted(cache, ip, t) == validTokensOf(cacheGet(cache, ip, t), t)

\* the token array stored for ip when rateLimit(ip) returns
rateLimitTokens(cache, ip, t) ==
  LET validTokens == validTokensOf(cacheGet(cache, ip, t), t)
  IN IF isLimited(validTokens) THEN validTokens ELSE Append(validTokens, t)

(* ------------------------- strings of characters ----------------------- *)
\* characters in ascending UTF-16 code order (the order of Array.sort)
CodeOrder ==
  << "\t", "\n", "\r", " ", "!", ",", "-", "0", "1", ":", "?",
     "A", "B", "C", "D", "E", "F", "G", "H", "I", "J", "K", "L", "M",
     "N", "O", "P", "Q", "R", "S", "T", "U", "V", "W", "X", "Y", "Z", "_",
     "a", "b", "c", "d", "e", "f", "g", "h", "i", "j", "k", "l", "m",
     "n", "o", "p", "q", "r", "s", "t", "u", "v", "w", "x", "y", "z" >>

Code(c) == CHOOSE i \in 1..Len(CodeOrder) : CodeOrder[i] = c

UpperCase == SubSeq(CodeOrder, 12, 37)
LowerCase == SubSeq(CodeOrder, 39, 64)

lowerChar(c) ==
  IF c \in Range(UpperCase)
  THEN LowerCase[CHOOSE i \in 1..26 : UpperCase[i] = c]
  ELSE c

toLowerCase(s) == [i \in 1..Len(s) |-> lowerChar(s[i])]

\* \s of the regular expressions
isSpace(c) == c \in {" ", "\t", "\n", "\r"}

\* \w of the regular expressions
isWord(c) == c \in Range(UpperCase) \cup Range(LowerCase) \cup {"0", "1", "_"}

\* the characters a dot of a regular expression does not match
isLineTerminator(c) == c \in {"\n", "\r"}

RECURSIVE trimStart(_)
trimStart(s) ==
  IF s # <<>> /\ isSpace(Head(s)) THEN trimStart(Tail(s)) ELSE s

RECURSIVE trimEnd(_)
trimEnd(s) ==
  IF s # <<>> /\ isSpace(s[Len(s)]) THEN trimEnd(SubSeq(s, 1, Len(s) - 1)) ELSE s

trim(s) == trimEnd(trimStart(s))

\* replace(/\s+/g, " ")
RECURSIVE collapseSpaces(_)
collapseSpaces(s) ==
  IF s = <<>> THEN <<>>
  ELSE IF isSpace(Head(s))
       THEN <<" ">> \o collapseSpaces(trimStart(s))
       ELSE <<Head(s)>> \o collapseSpaces(Tail(s))

\* replace(/[^\w\s]/g, "")
removeSpecial(s) == SelectSeq(s, LAMBDA c : isWord(c) \/ isSpace(c))

\* split(",")
RECURSIVE split(_)
split(s) ==
  IF \E i \in 1..Len(s) : s[i] = ","
  THEN LET i == CHOOSE j \in 1..Len(s) : s[j] = "," /\ \A k \in 1..(j - 1) : s[k] # ","
       IN <<SubSeq(s, 1, i - 1)>> \o split(SubSeq(s, i + 1, Len(s)))
  ELSE <<s>>

\* join(sep)
RECURSIVE join(_, _)
join(parts, sep) ==
  IF parts = <<>> THEN <<>>
  ELSE IF Len(parts) = 1 THEN parts[1]
  ELSE parts[1] \o sep \o join(Tail(parts), sep)

\* a < b in the code-unit order used by Array.prototype.sort
RECURSIVE strLess(_, _)
strLess(a, b) ==
  IF b = <<>> THEN FALSE
  ELSE IF a = <<>> THEN TRUE
  ELSE IF Head(a) = Head(b) THEN strLess(Tail(a), Tail(b))
  ELSE Code(Head(a)) < Code(Head(b))

RECURSIVE insertSorted(_, _)
insertSorted(x, sorted) ==
  IF sorted = <<>> THEN <<x>>
  ELSE IF strLess(x, Head(sorted)) THEN <<x>> \o sorted
  ELSE <<Head(sorted)>> \o insertSorted(x, Tail(sorted))

\* Array.prototype.sort() of strings
RECURSIVE sort(_)
sort(parts) ==
  IF parts = <<>> THEN <<>> ELSE insertSorted(parts[Len(parts)], sort(SubSeq(parts, 1, Len(parts) - 1)))

(* --------------------------- normalizeQuery ---------------------------- *)
\* "with dietary preferences: "
FilterMarker ==
  << "w", "i", "t", "h", " ", "d", "i", "e", "t", "a", "r", "y", " ",
     "p", "r", "e", "f", "e", "r", "e", "n", "c", "e", "s", ":", " " >>

\* /with dietary preferences: (.+)$/i matches at index i of query
filterMatchesAt(query, i) ==
  /\ i + Len(FilterMarker) <= Len(query)
  /\ toLowerCase(SubSeq(query, i, i + Len(FilterMarker) - 1)) = FilterMarker
  /\ \A j \in (i + Len(FilterMarker))..Len(query) : ~isLineTerminator(query[j])

\* index of the leftmost match, 0 when query.match(...) is null
filterMatchIndex(query) ==
  IF \E i \in 1..Len(query) : filterMatchesAt(query, i)
  THEN CHOOSE i \in 1..Len(query) :
         filterMatchesAt(query, i) /\ \A k \in 1..(i - 1) : ~filterMatchesAt(query, k)
  ELSE 0

filterTermsOf(captured) ==
  join(sort([i \in 1..Len(split(captured)) |-> toLowerCase(trim(split(captured)[i]))]), <<",">>)

\* normalizeQuery of src/unnamed/part_003
normalizeQueryEdge(query) ==
  LET m == filterMatchIndex(query)
  IN IF m # 0
     THEN LET mainQuery == removeSpecial(collapseSpaces(toLowerCase(trim(SubSeq(query, 1, m - 1)))))
              filterTerms == filterTermsOf(SubSeq(query, m + Len(FilterMarker), Len(query)))
          IN mainQuery \o <<":">> \o filterTerms
     ELSE removeSpecial(collapseSpaces(toLowerCase(trim(query))))

\* normalizeQuery of src/app/api/image-generation/route.ts
normalizeQueryNode(query) == collapseSpaces(toLowerCase(trim(query)))

\* normalizeQuery of src/app/api/search/route.ts
normalizeQueryLegacy(query) ==
  LET m == filterMatchIndex(query)
  IN IF m # 0
     THEN LET mainQuery == toLowerCase(trim(SubSeq(query, 1, m - 1)))
              captured == split(SubSeq(query, m + Len(FilterMarker), Len(query)))
              filterTerms == join(sort([i \in 1..Len(captured) |-> toLowerCase(trim(captured[i]))]),
                                  <<",", " ">>)
          IN mainQuery \o <<" ">> \o FilterMarker \o filterTerms
     ELSE toLowerCase(trim(query))

normalizeQuery(v, query) ==
  IF v = "edge" THEN normalizeQueryEdge(query)
  ELSE IF v = "node" THEN normalizeQueryNode(query)
  ELSE normalizeQueryLegacy(query)

\* query.includes(pattern)
includes(s, pattern) ==
  \E i \in 1..(Len(s) - Len(pattern) + 1) : SubSeq(s, i, i + Len(pattern) - 1) = pattern

(* --------------------------- recipe objects ---------------------------- *)
\* The JavaScript value of a recipe object is a record of its nine fields.
\* A field holds a text: "" when the member is absent, "null" for null, the
\* text of an array ("[]", "[i]", ...) or a string.  "A<FENCE>B" stands for
\* a string that contains the three-backquote code-fence marker.
ArrayTexts == {"[]", "[i]", "[s]", "[v]"}

NoRecipe ==
  [id |-> "", title |-> "", description |-> "", ingredients |-> "", instructions |-> "",
   prepTime |-> "", imageUrl |-> "", dietaryInfo |-> "", recipeType |-> ""]

RecipeFull ==
  [NoRecipe EXCEPT !.id = "7", !.title = "A", !.description = "d", !.ingredients = "[i]",
                   !.instructions = "[s]", !.prepTime = "5 min", !.dietaryInfo = "[v]",
                   !.recipeType = "dinner"]
RecipeTitleOnly == [NoRecipe EXCEPT !.title = "A"]
RecipeIdOnly == [NoRecipe EXCEPT !.id = "7"]
RecipeFencedTitle == [NoRecipe EXCEPT !.title = "A<FENCE>B"]
RecipeLooseFields == [NoRecipe EXCEPT !.title = "A", !.ingredients = "salt", !.recipeType = "null"]

RecipePositionalId == [NoRecipe EXCEPT !.id = "recipe-2"]

InputRecipes ==
  {RecipeFull, RecipeTitleOnly, RecipeIdOnly, RecipeFencedTitle, RecipeLooseFields,
   RecipePositionalId}

\* x || d
orElse(x, d) == IF x \in {"", "null"} THEN d ELSE x

\* Array.isArray(x) ? x : []
arrayOrEmpty(x) == IF x \in ArrayTexts THEN x ELSE "[]"

\* encodeURIComponent on the titles that occur
encodeURIComponent(text) ==
  CASE text = "Untitled Recipe" -> "Untitled%20Recipe"
    [] text = "A<FENCE>B" -> "A%60%60%60B"
    [] OTHER -> text

\* the element of the array parseRecipeData returns for recipe at index - 1
toRecipe(recipe, index) ==
  [id |-> orElse(recipe.id, "recipe-" \o ToString(index)),
   title |-> orElse(recipe.title, "Untitled Recipe"),
   description |-> orElse(recipe.description, "No description available"),
   ingredients |-> arrayOrEmpty(recipe.ingredients),
   instructions |-> arrayOrEmpty(recipe.instructions),
   prepTime |-> orElse(recipe.prepTime, "Unknown"),
   imageUrl |-> "/placeholder.svg?height=192&width=384&query="
                  \o encodeURIComponent(orElse(recipe.title, "food")),
   dietaryInfo |-> arrayOrEmpty(recipe.dietaryInfo),
   recipeType |-> orElse(recipe.recipeType, "null")]

\* the same without imageUrl: the second parseRecipeData of ui-context.tsx
toRecipePlain(recipe, index) == [toRecipe(recipe, index) EXCEPT !.imageUrl = ""]

\* text.replace of the code-fence marker inside a string
unfencedText(text) == IF text = "A<FENCE>B" THEN "AB" ELSE text

unfencedRecipe(recipe) == [f \in DOMAIN recipe |-> unfencedText(recipe[f])]

\* the JSON text of a recipe object, one lexeme of a content
objectText(recipe) ==
  "{id:" \o recipe.id \o ";title:" \o recipe.title \o ";description:" \o recipe.description
    \o ";ingredients:" \o recipe.ingredients \o ";instructions:" \o recipe.instructions
    \o ";prepTime:" \o recipe.prepTime \o ";imageUrl:" \o recipe.imageUrl
    \o ";dietaryInfo:" \o recipe.dietaryInfo \o ";recipeType:" \o recipe.recipeType \o "}"

\* the recipe objects whose text can occur: the inputs, what stripping the
\* fences makes of them, and what two passes of parseRecipeData return
passOf(recipes) ==
  {toRecipe(r, i) : r \in recipes, i \in 1..MaxBatch}
    \cup {toRecipePlain(r, i) : r \in recipes, i \in 1..MaxBatch}

KnownRecipes ==
  LET given == InputRecipes \cup {unfencedRecipe(r) : r \in InputRecipes}
      once == given \cup passOf(given)
  IN once \cup passOf(once)

ObjectTexts == {objectText(r) : r \in KnownRecipes}

\* the value JSON.parse gives for the text of a recipe object
JSONobject(text) == CHOOSE r \in KnownRecipes : objectText(r) = text

(* ------------------------ upstream content: JSON ----------------------- *)
\* Content is a sequence of lexemes: "FENCE_JSON" and "FENCE" (the Markdown
\* code fence with and without the json tag), the
\* JSON punctuation, whitespace, "R1"/"R2" (a well-formed recipe object
\* literal), the text of a recipe object (objectText) and "x" (a word of
\* prose).
RecipeLexemes == {"R1", "R2"} \cup ObjectTexts

isJsonSpace(c) == c \in {" ", "\n", "\t", "\r"}

RECURSIVE skipSpace(_, _)
skipSpace(s, i) ==
  IF i <= Len(s) /\ isJsonSpace(s[i]) THEN skipSpace(s, i + 1) ELSE i

ParseFail == [next |-> 0, isArray |-> FALSE, length |-> 0]

\* recursive-descent JSON reader: the value starting at index i, and the
\* index that follows it (next = 0 when the text is not JSON)
RECURSIVE parseValue(_, _)
RECURSIVE parseRest(_, _, _)
parseValue(s, i) ==
  LET j == skipSpace(s, i)
  IN IF j > Len(s) THEN ParseFail
     ELSE IF s[j] \in RecipeLexemes THEN [next |-> j + 1, isArray |-> FALSE, length |-> 0]
     ELSE IF s[j] = "{"
          THEN LET k == skipSpace(s, j + 1)
               IN IF k <= Len(s) /\ s[k] = "}"
                  THEN [next |-> k + 1, isArray |-> FALSE, length |-> 0]
                  ELSE ParseFail
     ELSE IF s[j] = "["
          THEN LET k == skipSpace(s, j + 1)
               IN IF k <= Len(s) /\ s[k] = "]"
                  THEN [next |-> k + 1, isArray |-> TRUE, length |-> 0]
                  ELSE LET v == parseValue(s, k)
                       IN IF v.next = 0 THEN ParseFail ELSE parseRest(s, v.next, 1)
     ELSE ParseFail

parseRest(s, i, n) ==
  LET j == skipSpace(s, i)
  IN IF j > Len(s) THEN ParseFail
     ELSE IF s[j] = "]" THEN [next |-> j + 1, isArray |-> TRUE, length |-> n]
     ELSE IF s[j] = ","
          THEN LET v == parseValue(s, j + 1)
               IN IF v.next = 0 THEN ParseFail ELSE parseRest(s, v.next, n + 1)
     ELSE ParseFail

\* JSON.parse(s): ok is FALSE where it throws
JSONparse(s) ==
  LET v == parseValue(s, 1)
  IN IF v.next # 0 /\ skipSpace(s, v.next) > Len(s)
     THEN [ok |-> TRUE, isArray |-> v.isArray, length |-> v.length]
     ELSE [ok |-> FALSE, isArray |-> FALSE, length |-> 0]

\* Array.isArray(parsed) && parsed.length > 0
isNonEmptyArray(s) == JSONparse(s).ok /\ JSONparse(s).isArray /\ JSONparse(s).length > 0

indexOf(s, c) ==
  IF c \in Range(s) THEN CHOOSE i \in 1..Len(s) : s[i] = c /\ \A k \in 1..(i - 1) : s[k] # c
  ELSE 0

lastIndexOf(s, c) ==
  IF c \in Range(s) THEN CHOOSE i \in 1..Len(s) : s[i] = c /\ \A k \in (i + 1)..Len(s) : s[k] # c
  ELSE 0

\* String.prototype.substring(from, to) on 0-based code positions given here
\* as 1-based index of the first lexeme and of the lexeme after the last;
\* substring swaps its arguments when from > to
substring(s, from, to) ==
  IF from <= to THEN SubSeq(s, from, to - 1) ELSE SubSeq(s, to, from - 1)

\* replace(/<fence>json|<fence>/g, ""): the fences between the lexemes go,
\* and so do the markers inside the strings of a recipe object
unfenced(c) == IF c \in ObjectTexts THEN objectText(unfencedRecipe(JSONobject(c))) ELSE c

stripFences(s) ==
  LET kept == SelectSeq(s, LAMBDA c : c \notin {"FENCE_JSON", "FENCE"})
  IN [i \in 1..Len(kept) |-> unfenced(kept[i])]

cleanJsonResponse(jsonString) ==
  LET cleaned == trim(stripFences(jsonString))
  IN IF (cleaned = <<>> \/ Head(cleaned) # "[") /\ "[" \in Range(cleaned) /\ "]" \in Range(cleaned)
     THEN substring(cleaned, indexOf(cleaned, "["), lastIndexOf(cleaned, "]") + 1)
     ELSE cleaned

(* -------------------- parseRecipeData (ui-context.tsx) ----------------- *)
\* the elements of a JSON array of recipe objects, as values
elementsOf(s) ==
  LET texts == SelectSeq(s, LAMBDA c : c \in ObjectTexts)
  IN [i \in 1..Len(texts) |-> JSONobject(texts[i])]

\* parsedData.map((recipe, index) => ...)
mapRecipes(recipes) == [i \in 1..Len(recipes) |-> toRecipe(recipes[i], i)]

mapRecipesPlain(recipes) == [i \in 1..Len(recipes) |-> toRecipePlain(recipes[i], i)]

ParseThrows == [ok |-> FALSE, recipes |-> <<>>]

\* the cleanup keeps the text as it is: nothing is cut out of the prose
parseRecipeDataNoSlice(jsonString) ==
  IF JSONparse(jsonString).ok /\ JSONparse(jsonString).isArray
  THEN [ok |-> TRUE, recipes |-> mapRecipes(elementsOf(jsonString))]
  ELSE LET arrayString == trim(stripFences(jsonString))
       IN IF JSONparse(arrayString).ok /\ JSONparse(arrayString).isArray
          THEN [ok |-> TRUE, recipes |-> mapRecipes(elementsOf(arrayString))]
          ELSE ParseThrows

\* parseRecipeData of ui-context.tsx, lines 100-159: the fast path, then
\* the cleanup (the text surgery of cleanJsonResponse) and a second
\* JSON.parse; ok is FALSE where it throws
parseRecipeData(jsonString) ==
  IF JSONparse(jsonString).ok /\ JSONparse(jsonString).isArray
  THEN [ok |-> TRUE, recipes |-> mapRecipes(elementsOf(jsonString))]
  ELSE LET arrayString == cleanJsonResponse(jsonString)
       IN IF JSONparse(arrayString).ok /\ JSONparse(arrayString).isArray
          THEN [ok |-> TRUE, recipes |-> mapRecipes(elementsOf(arrayString))]
          ELSE ParseThrows

\* parseRecipeData of ui-context.tsx, lines 384-407: no cleanup; anything
\* that is not an array, or does not parse, gives []
parseRecipeDataPlain(jsonString) ==
  IF JSONparse(jsonString).ok /\ JSONparse(jsonString).isArray
  THEN [ok |-> TRUE, recipes |-> mapRecipesPlain(elementsOf(jsonString))]
  ELSE [ok |-> TRUE, recipes |-> <<>>]

\* sanitizeApiResponse of image-generation/route.ts (reached from
\* processLargeResponse only, which nothing calls): control characters
\* go, every double quote gets a backslash, and a comma before a closing
\* bracket goes
escapedQuotes(c) == IF c \in RecipeLexemes THEN "ESCAPED:" \o c ELSE c

RECURSIVE withoutTrailingCommas(_, _)
withoutTrailingCommas(s, i) ==
  IF i > Len(s) THEN <<>>
  ELSE LET k == skipSpace(s, i + 1)
       IN IF s[i] = "," /\ k <= Len(s) /\ s[k] \in {"]", "}"}
          THEN withoutTrailingCommas(s, k)
          ELSE <<s[i]>> \o withoutTrailingCommas(s, i + 1)

sanitizeApiResponse(content) ==
  LET withoutControl == SelectSeq(content, LAMBDA c : c \notin {"\t", "\n", "\r"})
      escaped == [i \in 1..Len(withoutControl) |-> escapedQuotes(withoutControl[i])]
  IN withoutTrailingCommas(escaped, 1)

\* JSON.stringify of a batch
serialize(recipes) ==
  <<"[">> \o join([i \in 1..Len(recipes) |-> <<objectText(recipes[i])>>], <<",">>) \o <<"]">>

(* ------------------------------- inputs -------------------------------- *)
Variants == {"edge", "node"}

\* request bodies: [kind |-> "json", query |-> q], a JSON body without a
\* string query ("noquery"), or a body req.json() rejects ("malformed")
QSoup == <<"S", "o", "u", "p">>
QSoupSpaced == <<" ", "s", "o", "u", "p", " ">>
QBlank == <<" ">>
QErrorText == <<"E", "r", "r", "o", "r", ":">>

\* The last query is one part_003 rejects.  In image-generation/route.ts it
\* is an ordinary query with a cache key of its own, and is left out there
\* so that every modelled request addresses the one key of "soup".
Queries(v) ==
  {QSoup, QSoupSpaced, QBlank} \cup (IF v = "edge" THEN {QErrorText} ELSE {})

Bodies(v) ==
  {[kind |-> "json", query |-> q] : q \in Queries(v)}
    \cup {[kind |-> "noquery", query |-> <<>>], [kind |-> "malformed", query |-> <<>>]}

\* query.includes("Error:"); no modelled query contains the other text,
\* "Failed to fetch search results"
isErrorText(query) == includes(query, QErrorText)

\* what the generation API can answer
ContentOne == <<"[", "R1", "]">>
ContentFenced == <<"FENCE_JSON", "\n", "[", "R2", ",", "R1", "]", "\n", "FENCE">>
ContentObject == <<"{", "}">>
ContentGarbage == <<"x">>
ContentNone == <<>>

Contents ==
  {ContentOne, ContentFenced, ContentObject, ContentGarbage, ContentNone}

UpstreamStatuses == {503}

Outcomes ==
  {[kind |-> "network", status |-> 0, content |-> <<>>],
   [kind |-> "badEnvelope", status |-> 200, content |-> <<>>]}
    \cup {[kind |-> "http", status |-> st, content |-> <<>>] : st \in UpstreamStatuses}
    \cup {[kind |-> "ok", status |-> 200, content |-> c] : c \in Contents}

(* ------------------------------- state --------------------------------- *)
VARIABLES
  variant,        \* which copy of the search route is deployed
  apiKey,         \* process.env.DEEPSEEK_API_KEY is set
  now,            \* Date.now()
  ticks,          \* number of clock advances so far
  tokenCache,     \* rate-limiter.ts: tokenCache
  lruOrder,       \* recency order of tokenCache, least recent first
  responseCache,  \* cache key -> [result, expiry]
  requests,       \* bag of POST invocations suspended at an await
  background,     \* bag of revalidations queued by setTimeout or awaiting fetch
  event,          \* the handler step taken last and the response it sent
  admits,         \* per identity, the times of its admissions younger than interval
  probe,          \* arguments and results of a function applied on its own
  apiCallsCount,  \* image-generation/route.ts: apiCallsCount
  lastResetTime,  \* image-generation/route.ts: lastResetTime
  imageCalls,     \* bag of image POST invocations suspended at an await
  imagePassed,    \* per identity, its image requests let through since the last reset
  blockedUntil    \* per identity, the resetTime of the rejection that blocks it
                  \* and the time of the admission that ended the block

vars ==
  <<variant, apiKey, now, ticks, tokenCache, lruOrder, responseCache,
    requests, background, event, admits, probe,
    apiCallsCount, lastResetTime, imageCalls, imagePassed, blockedUntil>>

imageVars == <<apiCallsCount, lastResetTime, imageCalls, imagePassed>>

NoHeader == -1

NoProbe == [op |-> "none", q1 |-> <<>>, q2 |-> <<>>, k1 |-> <<>>, k2 |-> <<>>]

\* what the producer did in the step of an event: produced is "ok" with
\* the value it returned, "failed" when it threw, "none" when it did not end
NoProduct == [produced |-> "none", value |-> <<>>, message |-> ""]

\* what a run of the producer gave: its value, or the message of its error
productOf(f) ==
  IF f.ok THEN [produced |-> "ok", value |-> f.value, message |-> ""]
  ELSE [produced |-> "failed", value |-> <<>>, message |-> f.message]

NoBlock == [reset |-> NoHeader, admitted |-> NoHeader]

NoEvent ==
  [op |-> "none", ip |-> "", limited |-> FALSE, key |-> <<>>, status |-> 0,
   xcache |-> "", result |-> <<>>, limitHdr |-> NoHeader, remaining |-> NoHeader,
   reset |-> NoHeader, error |-> "", details |-> "", producer |-> NoProduct]

\* the module state of a process that has served nothing yet
Cold ==
  /\ apiKey \in BOOLEAN
  /\ now = 0
  /\ ticks = 0
  /\ tokenCache = [k \in {} |-> 0]
  /\ lruOrder = <<>>
  /\ responseCache = [k \in {} |-> 0]
  /\ requests = EmptyBag
  /\ background = EmptyBag
  /\ event = NoEvent
  /\ admits = [ip \in RateIPs |-> <<>>]
  /\ apiCallsCount = 0
  /\ lastResetTime = now
  /\ imageCalls = EmptyBag
  /\ imagePassed = [ip \in RateIPs |-> 0]
  /\ blockedUntil = [ip \in RateIPs |-> NoBlock]

\* one of the two copies that use staleWhileRevalidate is deployed
Loaded == variant \in Variants /\ Cold

Init == Loaded /\ probe = NoProbe

(* ------------------------------- clock --------------------------------- *)
\* admissions of the last interval milliseconds, as seen at time t
recent(times, t) == SelectSeq(times, LAMBDA time : time > t - interval)

advance(d) ==
  /\ now' = now + d
  /\ ticks' = ticks + 1
  /\ admits' = [ip \in RateIPs |-> recent(admits[ip], now + d)]
  /\ event' = [NoEvent EXCEPT !.op = "tick"]
  /\ UNCHANGED <<blockedUntil, imageVars, probe, variant, apiKey, tokenCache, lruOrder, responseCache, requests, background>>

Tick(d) == ticks < MaxTicks /\ advance(d)

RateTick(d) == ticks < MaxRateTicks /\ advance(d)

PostTick(d) == ticks < MaxTicks \div 2 /\ advance(d)

(* --------------------------- response cache ---------------------------- *)
\* a fresh entry is revalidated like a stale one
lookupStateNeverFresh(cache, cacheKey, t) ==
  IF cacheKey \notin DOMAIN cache THEN "MISSING"
  ELSE IF cache[cacheKey].expiry > t - CACHE_TTL THEN "STALE"
  ELSE "EXPIRED"

\* a stale entry is refetched in the foreground
lookupStateNeverStale(cache, cacheKey, t) ==
  IF cacheKey \notin DOMAIN cache THEN "MISSING"
  ELSE IF cache[cacheKey].expiry > t THEN "FRESH"
  ELSE "EXPIRED"

\* an entry is served however old it is
lookupStateNeverExpired(cache, cacheKey, t) ==
  IF cacheKey \notin DOMAIN cache THEN "MISSING"
  ELSE IF cache[cacheKey].expiry > t THEN "FRESH"
  ELSE "STALE"

\* the branch staleWhileRevalidate takes for cacheKey at time t
lookupState(cache, cacheKey, t) ==
  IF cacheKey \notin DOMAIN cache THEN "MISSING"
  ELSE IF cache[cacheKey].expiry > t THEN "FRESH"
  ELSE IF cache[cacheKey].expiry > t - CACHE_TTL THEN "STALE"
  ELSE "EXPIRED"

\* a write that keeps the later of the old and the new expiry
cacheWriteMerging(cache, cacheKey, result, expiry) ==
  [k \in DOMAIN cache \cup {cacheKey} |->
     IF k # cacheKey THEN cache[k]
     ELSE IF k \in DOMAIN cache /\ cache[k].expiry > expiry
     THEN [result |-> result, expiry |-> cache[k].expiry]
     ELSE [result |-> result, expiry |-> expiry]]

\* responseCache.set(cacheKey, {result, expiry})
cacheWrite(cache, cacheKey, result, expiry) ==
  [k \in DOMAIN cache \cup {cacheKey} |->
     IF k = cacheKey THEN [result |-> result, expiry |-> expiry] ELSE cache[k]]

(* ------------------------- the producer's result ----------------------- *)
\* fetchFreshData after the upstream answered: the value it returns, or the
\* message of the error it throws
EdgeNetworkMessage == "Failed to get response from Deepseek API: fetch failed"
EdgeEnvelopeMessage == "Failed to get response from Deepseek API: Unexpected token"
EdgeParseMessage ==
  "Failed to get response from Deepseek API: Failed to parse recipe data from the API. Please try a different search query."
EdgeHttpMessage(st) ==
  IF st = 503
  THEN "Failed to get response from Deepseek API: Failed to get response from Deepseek API: 503 - {}"
  ELSE "Failed to get response from Deepseek API: Failed to get response from Deepseek API: other status"
ConfigMessage == "Search service is not properly configured"

\* the missing key is reported like a failed fetch
ConfigFailureAsTransport == [ok |-> FALSE, value |-> <<>>, message |-> "fetch failed"]

\* fetchFreshData without DEEPSEEK_API_KEY: it throws before any fetch
ConfigFailure == [ok |-> FALSE, value |-> <<>>, message |-> ConfigMessage]

\* data.choices?.[0]?.message?.content || "[]"
responseTextOf(content) == IF content = <<>> THEN <<"[", "]">> ELSE content

\* part_003: clean, JSON.parse, require a non-empty array
validatedEdge(content) == isNonEmptyArray(cleanJsonResponse(responseTextOf(content)))

fetchedEdge(outcome) ==
  IF outcome.kind = "network" THEN [ok |-> FALSE, value |-> <<>>, message |-> EdgeNetworkMessage]
  ELSE IF outcome.kind = "http"
       THEN [ok |-> FALSE, value |-> <<>>, message |-> EdgeHttpMessage(outcome.status)]
  ELSE IF outcome.kind = "badEnvelope"
       THEN [ok |-> FALSE, value |-> <<>>, message |-> EdgeEnvelopeMessage]
  ELSE IF validatedEdge(outcome.content)
       THEN [ok |-> TRUE, value |-> cleanJsonResponse(responseTextOf(outcome.content)), message |-> ""]
  ELSE [ok |-> FALSE, value |-> <<>>, message |-> EdgeParseMessage]

\* image-generation/route.ts: validateApiResponse only requires truthy content
validateApiResponse(content) == content # <<>>

NodeNetworkMessage == "fetch failed"
NodeEnvelopeMessage == "Unexpected token"
NodeStructureMessage == "Invalid API response structure"
NodeHttpMessage(st) ==
  IF st = 503 THEN "API request failed: 503" ELSE "API request failed: other status"

fetchedNode(outcome) ==
  IF outcome.kind = "network" THEN [ok |-> FALSE, value |-> <<>>, message |-> NodeNetworkMessage]
  ELSE IF outcome.kind = "http"
       THEN [ok |-> FALSE, value |-> <<>>, message |-> NodeHttpMessage(outcome.status)]
  ELSE IF outcome.kind = "badEnvelope"
       THEN [ok |-> FALSE, value |-> <<>>, message |-> NodeEnvelopeMessage]
  ELSE IF validateApiResponse(outcome.content)
       THEN [ok |-> TRUE, value |-> outcome.content, message |-> ""]
  ELSE [ok |-> FALSE, value |-> <<>>, message |-> NodeStructureMessage]

fetched(v, outcome) == IF v = "edge" THEN fetchedEdge(outcome) ELSE fetchedNode(outcome)

(* ------------------------------ responses ------------------------------ *)
\* a 429 whose headers describe a fresh window
rateLimitedResponseFreshWindow(ip, rl) ==
  [NoEvent EXCEPT !.op = "arrive", !.ip = ip, !.limited = TRUE, !.status = 429,
                  !.limitHdr = RATE_LIMIT, !.remaining = RATE_LIMIT, !.reset = now + interval,
                  !.error = "Rate limit exceeded"]

\* 429 of POST
rateLimitedResponse(ip, rl) ==
  [NoEvent EXCEPT !.op = "arrive", !.ip = ip, !.limited = TRUE, !.status = 429,
                  !.limitHdr = RATE_LIMIT, !.remaining = 0, !.reset = rl.resetTime,
                  !.error = "Rate limit exceeded"]

\* an admitted request goes on; the limiter's answer is recorded here (it
\* later fills the X-RateLimit headers of a 200, which are not modelled)
admittedEvent(ip, rl) ==
  [NoEvent EXCEPT !.op = "arrive", !.ip = ip, !.remaining = rl.remaining, !.reset = rl.resetTime]

badRequestResponse(text) ==
  [NoEvent EXCEPT !.op = "body", !.status = 400, !.error = text]

\* the outer catch of POST
unexpectedResponse(v) ==
  [NoEvent EXCEPT !.op = "body", !.status = 500, !.error = "Failed to process your request",
                  !.details = IF v = "edge" THEN "Unexpected token" ELSE ""]

\* the 200 of POST: { result } with X-Cache
okResponse(op, cacheKey, xcache, result) ==
  [NoEvent EXCEPT !.op = op, !.key = cacheKey, !.status = 200,
                  !.xcache = xcache, !.result = result, !.limitHdr = RATE_LIMIT]

\* the catch around staleWhileRevalidate
failedResponse(v, op, cacheKey, message) ==
  [NoEvent EXCEPT !.op = op, !.key = cacheKey, !.status = 500,
                  !.error = "Failed to get search results",
                  !.details = IF v = "edge" THEN message ELSE ""]

(* ---------------------- rateLimit called on its own -------------------- *)
\* what is remembered of the identity's block after a call that returned rl:
\* a rejection starts or continues a block, the first admission after it is
\* noted with its time, any other admission forgets the block
blockedAfter(ip, rl) ==
  [blockedUntil EXCEPT ![ip] =
     IF rl.limited
     THEN [reset |-> rl.resetTime, admitted |-> NoHeader]
     ELSE IF @.reset # NoHeader /\ @.admitted = NoHeader
          THEN [@ EXCEPT !.admitted = now]
          ELSE NoBlock]

admitsAfter(ip, rl) ==
  IF rl.limited THEN admits ELSE [admits EXCEPT ![ip] = Append(@, now)]

\* one call rateLimit(ip): its effect on tokenCache and its return value
Call(ip) ==
  LET rl == rateLimitResult(tokenCache, ip, now)
  IN /\ tokenCache' = cacheSet(tokenCache, lruOrder, ip, rateLimitTokens(tokenCache, ip, now), now)
     /\ lruOrder' = orderAfterSet(lruOrder, ip)
     /\ event' = [NoEvent EXCEPT !.op = "rateLimit", !.ip = ip, !.limited = rl.limited,
                                 !.remaining = rl.remaining, !.reset = rl.resetTime]
     /\ admits' = admitsAfter(ip, rl)
     /\ blockedUntil' = blockedAfter(ip, rl)
     /\ UNCHANGED <<imageVars, probe, variant, apiKey, now, ticks, responseCache, requests, background>>

(* ------------------ writes of staleWhileRevalidate --------------------- *)
\* a failure of the awaited producer is stored as an entry
foregroundWriteOnFailure(v, cache, cacheKey, f, now0, t) ==
  cacheWrite(cache, cacheKey, f.value, now0 + CACHE_TTL)

\* the awaited producer f has ended at time t for a lookup made at now0:
\* a throw leaves the cache alone; a value is stored with now0 + CACHE_TTL
\* (after the write fetchFreshData of image-generation/route.ts made itself)
foregroundWrite(v, cache, cacheKey, f, now0, t) ==
  IF ~f.ok
  THEN cache
  ELSE LET inner == IF v = "node"
                    THEN cacheWrite(cache, cacheKey, f.value, t + CACHE_TTL)
                    ELSE cache
       IN cacheWrite(inner, cacheKey, f.value, now0 + CACHE_TTL)

\* a failure of the background producer is stored as an entry
backgroundWriteOnFailure(cache, cacheKey, f, t) ==
  cacheWrite(cache, cacheKey, f.value, t + CACHE_TTL)

\* the revalidated payload is stored without a new life time
backgroundWriteNoTtl(cache, cacheKey, f, t) ==
  IF ~f.ok THEN cache ELSE cacheWrite(cache, cacheKey, f.value, t)

\* the background producer f has ended at time t: a throw is logged, a
\* value is stored with Date.now() + CACHE_TTL
backgroundWrite(cache, cacheKey, f, t) ==
  IF ~f.ok THEN cache ELSE cacheWrite(cache, cacheKey, f.value, t + CACHE_TTL)

(* ---------------------------- POST handler ----------------------------- *)
inFlight == BagCardinality(requests)
queued == BagCardinality(background)

\* a bag that holds one copy of a record at most
addToOnce(bag, x) == IF x \in BagToSet(bag) THEN bag ELSE bag (+) SetToBag({x})

addTo(bag, x) == bag (+) SetToBag({x})

\* the invocations in bag that wait at pc for the cache key
RECURSIVE copiesOf(_, _)
copiesOf(bag, S) ==
  IF S = {} THEN 0
  ELSE LET x == CHOOSE y \in S : TRUE
       IN CopiesIn(x, bag) + copiesOf(bag, S \ {x})

waiting(bag, pc, cacheKey) ==
  copiesOf(bag, {x \in BagToSet(bag) : x.pc = pc /\ x.key = cacheKey})
removeFrom(bag, x) == bag (-) SetToBag({x})

\* POST from its entry to the first suspension (await req.json()):
\* rateLimit(ip), then either the 429 or the wait for the body
Arrive(ip) ==
  LET rl == rateLimitResult(tokenCache, ip, now)
  IN /\ rl.limited \/ inFlight < MaxInFlight
     /\ tokenCache' = cacheSet(tokenCache, lruOrder, ip, rateLimitTokens(tokenCache, ip, now), now)
     /\ lruOrder' = orderAfterSet(lruOrder, ip)
     /\ IF rl.limited
        THEN /\ event' = rateLimitedResponse(ip, rl)
             /\ UNCHANGED requests
        ELSE /\ event' = admittedEvent(ip, rl)
             /\ requests' = addTo(requests,
                  [pc |-> "body", key |-> <<>>, now0 |-> 0])
     /\ admits' = admitsAfter(ip, rl)
     /\ blockedUntil' = blockedAfter(ip, rl)
     /\ UNCHANGED <<imageVars, probe, variant, apiKey, now, ticks, responseCache, background>>

\* a request the limiter has admitted, suspended at await req.json(): the
\* handler without the state of the limiter (any number of admissions)
AdmittedUpTo(maxInFlight) ==
  /\ inFlight < maxInFlight
  /\ requests' = addTo(requests, [pc |-> "body", key |-> <<>>, now0 |-> 0])
  /\ event' = [NoEvent EXCEPT !.op = "admitted"]
  /\ UNCHANGED <<blockedUntil, imageVars, probe, variant, apiKey, now, ticks, tokenCache, lruOrder, responseCache,
                 background, admits>>

Admitted == AdmittedUpTo(MaxInFlight)

\* the task setTimeout queues on a stale hit; seen remembers the expiry
\* of the entry that was served
revalidation(cacheKey, expiry) == [pc |-> "timer", key |-> cacheKey, seen |-> expiry]

\* the query checks of POST; the second one exists in part_003 only
queryMissing(body) == body.kind = "noquery" \/ trim(body.query) = <<>>
queryRejected(v, body) == v = "edge" /\ isErrorText(body.query)

\* POST from the body to its response or to the upstream fetch (an event
\* "lookup" is a step that reached staleWhileRevalidate, "body" one that
\* ended at the validation):
\* validation, normalizeQuery, staleWhileRevalidate up to await fetchFn()
BodyUpTo(r, body, maxQueued) ==
  /\ r \in BagToSet(requests)
  /\ r.pc = "body"
  /\ LET cacheKey == normalizeQuery(variant, body.query)
         lookup == lookupState(responseCache, cacheKey, now)
         valid == body.kind = "json" /\ ~queryMissing(body) /\ ~queryRejected(variant, body)
     IN /\ (valid /\ lookup = "STALE") => queued < maxQueued
        /\ IF body.kind = "malformed"
           THEN /\ event' = unexpectedResponse(variant)
                /\ requests' = removeFrom(requests, r)
                /\ UNCHANGED background
           ELSE IF queryMissing(body)
           THEN /\ event' = badRequestResponse("Search query is required")
                /\ requests' = removeFrom(requests, r)
                /\ UNCHANGED background
           ELSE IF queryRejected(variant, body)
           THEN /\ event' = badRequestResponse("Invalid search query")
                /\ requests' = removeFrom(requests, r)
                /\ UNCHANGED background
           ELSE IF lookup = "FRESH"
           THEN /\ event' = okResponse("lookup", cacheKey, "HIT", responseCache[cacheKey].result)
                /\ requests' = removeFrom(requests, r)
                /\ UNCHANGED background
           ELSE IF lookup = "STALE"
           THEN /\ event' = okResponse("lookup", cacheKey, "HIT", responseCache[cacheKey].result)
                /\ requests' = removeFrom(requests, r)
                /\ background' = addTo(background, revalidation(cacheKey, responseCache[cacheKey].expiry))
           ELSE IF ~apiKey
           THEN /\ event' = [failedResponse(variant, "lookup", cacheKey, ConfigMessage)
                              EXCEPT !.producer = productOf(ConfigFailure)]
                /\ requests' = removeFrom(requests, r)
                /\ UNCHANGED background
           ELSE /\ event' = [NoEvent EXCEPT !.op = "lookup", !.key = cacheKey]
                /\ requests' = addTo(removeFrom(requests, r),
                     [r EXCEPT !.pc = "fetch", !.key = cacheKey, !.now0 = now])
                /\ UNCHANGED background
  /\ UNCHANGED <<blockedUntil, imageVars, probe, variant, apiKey, now, ticks, tokenCache, lruOrder, responseCache, admits>>

Body(r, body) == BodyUpTo(r, body, MaxBackground)

\* the upstream answers a foreground fetch: the rest of fetchFreshData,
\* then staleWhileRevalidate writes the entry and POST responds.
\* In image-generation/route.ts fetchFreshData itself first writes the entry
\* with expiry Date.now() + CACHE_TTL; staleWhileRevalidate resumes in the
\* next microtask of the same task and writes it again with the time
\* captured at the lookup, which is the entry this step leaves.
Reply(r, outcome) ==
  /\ r \in BagToSet(requests)
  /\ r.pc = "fetch"
  /\ LET f == fetched(variant, outcome)
     IN IF ~f.ok
        THEN event' = [failedResponse(variant, "reply", r.key, f.message) EXCEPT !.producer = productOf(f)]
        ELSE event' = [okResponse("reply", r.key, "MISS", f.value) EXCEPT !.producer = productOf(f)]
  /\ responseCache' = foregroundWrite(variant, responseCache, r.key, fetched(variant, outcome), r.now0, now)
  /\ requests' = removeFrom(requests, r)
  /\ UNCHANGED <<blockedUntil, imageVars, probe, variant, apiKey, now, ticks, tokenCache, lruOrder, background, admits>>

(* ----------------------- background revalidation ----------------------- *)
\* the setTimeout callback starts: fetchFn() up to the upstream fetch, or
\* its configuration error, which the callback catches and logs
BgStart(b) ==
  /\ b \in BagToSet(background)
  /\ b.pc = "timer"
  /\ background' = IF apiKey
                   THEN addTo(removeFrom(background, b), [b EXCEPT !.pc = "fetch"])
                   ELSE removeFrom(background, b)
  /\ event' = [NoEvent EXCEPT !.op = "bgStart", !.key = b.key,
                              !.producer = IF apiKey THEN NoProduct ELSE productOf(ConfigFailure)]
  /\ UNCHANGED <<blockedUntil, imageVars, probe, variant, apiKey, now, ticks, tokenCache, lruOrder, responseCache, requests, admits>>

\* the upstream answers a background fetch: the rest of fetchFn, then the
\* callback writes the entry with Date.now() + CACHE_TTL, or logs the error
BgReply(b, outcome) ==
  /\ b \in BagToSet(background)
  /\ b.pc = "fetch"
  /\ responseCache' = backgroundWrite(responseCache, b.key, fetched(variant, outcome), now)
  /\ background' = removeFrom(background, b)
  /\ event' = [NoEvent EXCEPT !.op = "bgReply", !.key = b.key,
                              !.producer = productOf(fetched(variant, outcome))]
  /\ UNCHANGED <<blockedUntil, imageVars, probe, variant, apiKey, now, ticks, tokenCache, lruOrder, requests, admits>>

(* ------------- the route of src/app/api/search/route.ts ---------------- *)
\* This copy has no staleWhileRevalidate: an entry is served while its
\* expiry is in the future and refetched in the foreground otherwise; it
\* answers every upstream failure itself.
LEGACY_CACHE_TTL == 24 * 60 * 60 * 1000

LegacyQueries == {QSoup, QSoupSpaced, QBlank, QErrorText}

LegacyBodies ==
  {[kind |-> "json", query |-> q] : q \in LegacyQueries}
    \cup {[kind |-> "noquery", query |-> <<>>], [kind |-> "malformed", query |-> <<>>]}

\* cleanExpiredCache()
cleanExpiredCache(cache, t) ==
  [k \in {j \in DOMAIN cache : ~(cache[j].expiry < t)} |-> cache[k]]

LegacyUpstreamMessage == "Failed to get response from Deepseek API"

\* the response to an upstream answer whose status is not 2xx
legacyUpstreamResponse(cacheKey, st) ==
  [NoEvent EXCEPT !.op = "reply", !.key = cacheKey, !.status = st,
                  !.error = LegacyUpstreamMessage,
                  !.details = "errorData"]

\* the 500s of the route after the cache lookup
legacyFailure(op, cacheKey, text, details) ==
  [NoEvent EXCEPT !.op = op, !.key = cacheKey, !.status = 500, !.error = text,
                  !.details = details]

\* POST from the body to its response or to the upstream fetch
LegacyBody(r, body) ==
  /\ variant = "legacy"
  /\ r \in BagToSet(requests)
  /\ r.pc = "body"
  /\ LET cacheKey == normalizeQuery(variant, body.query)
     IN IF body.kind = "malformed"
        THEN /\ event' = unexpectedResponse("edge")
             /\ requests' = removeFrom(requests, r)
        ELSE IF queryMissing(body)
        THEN /\ event' = badRequestResponse("Search query is required")
             /\ requests' = removeFrom(requests, r)
        ELSE IF isErrorText(body.query)
        THEN /\ event' = badRequestResponse("Invalid search query")
             /\ requests' = removeFrom(requests, r)
        ELSE IF cacheKey \in DOMAIN responseCache /\ responseCache[cacheKey].expiry > now
        THEN /\ event' = okResponse("lookup", cacheKey, "HIT", responseCache[cacheKey].result)
             /\ requests' = removeFrom(requests, r)
        ELSE IF ~apiKey
        THEN /\ event' = [legacyFailure("lookup", cacheKey, ConfigMessage, "")
                           EXCEPT !.producer = productOf(ConfigFailure)]
             /\ requests' = removeFrom(requests, r)
        ELSE /\ event' = [NoEvent EXCEPT !.op = "lookup", !.key = cacheKey]
             /\ requests' = addTo(removeFrom(requests, r),
                  [r EXCEPT !.pc = "fetch", !.key = cacheKey, !.now0 = now])
  /\ UNCHANGED <<blockedUntil, imageVars, probe, variant, apiKey, now, ticks, tokenCache, lruOrder, responseCache,
                 background, admits>>

\* the upstream answers: the rest of POST.  clean is the outcome of
\* Math.random() < 0.1, which runs cleanExpiredCache after the write.
LegacyReply(r, outcome, clean) ==
  /\ variant = "legacy"
  /\ r \in BagToSet(requests)
  /\ r.pc = "fetch"
  /\ LET cleanedResponse == cleanJsonResponse(responseTextOf(outcome.content))
         failed == [ok |-> FALSE, value |-> <<>>, message |-> LegacyUpstreamMessage]
     IN IF outcome.kind = "http"
        THEN /\ event' = [legacyUpstreamResponse(r.key, outcome.status)
                           EXCEPT !.producer = productOf(failed)]
             /\ UNCHANGED responseCache
        ELSE IF outcome.kind \in {"network", "badEnvelope"}
        THEN /\ event' = [legacyFailure("reply", r.key, LegacyUpstreamMessage,
                                        IF outcome.kind = "network" THEN "fetch failed"
                                        ELSE "Unexpected token")
                           EXCEPT !.producer = productOf(failed)]
             /\ UNCHANGED responseCache
        ELSE IF ~isNonEmptyArray(cleanedResponse)
        THEN LET text == IF JSONparse(cleanedResponse).ok
                         THEN "The API did not return valid recipe data"
                         ELSE "Failed to parse recipe data from the API"
             IN event' = [legacyFailure("reply", r.key, text, "")
                           EXCEPT !.producer = productOf([failed EXCEPT !.message = text])]
             /\ UNCHANGED responseCache
        ELSE /\ responseCache' =
                  LET written == cacheWrite(responseCache, r.key, cleanedResponse,
                                            r.now0 + LEGACY_CACHE_TTL)
                  IN IF clean THEN cleanExpiredCache(written, now) ELSE written
             /\ event' = [okResponse("reply", r.key, "MISS", cleanedResponse)
                           EXCEPT !.producer = productOf([ok |-> TRUE, value |-> cleanedResponse,
                                                          message |-> ""])]
  /\ requests' = removeFrom(requests, r)
  /\ UNCHANGED <<blockedUntil, imageVars, probe, variant, apiKey, now, ticks, tokenCache, lruOrder, background, admits>>

(* ------------- the image route: one counter for everyone --------------- *)
\* resetRateLimit with the comparison one millisecond late
resetRateLimitLate(count, last, t) ==
  IF t - last > IMAGE_WINDOW
  THEN [apiCallsCount |-> 0, lastResetTime |-> t]
  ELSE [apiCallsCount |-> count, lastResetTime |-> last]

\* the counter and the time of its reset after resetRateLimit() at time t
resetRateLimit(count, last, t) ==
  IF t - last >= IMAGE_WINDOW
  THEN [apiCallsCount |-> 0, lastResetTime |-> t]
  ELSE [apiCallsCount |-> count, lastResetTime |-> last]

\* the comparison off by one: an eleventh request passes
imageLimitedAbove(count) == count > IMAGE_LIMIT

\* the check made right after resetRateLimit()
imageLimited(count) == count >= IMAGE_LIMIT

ImageBodies == {"malformed", "noDescription", "ok"}
ImageOutcomes == {"network", "http", "badJson", "noUrl", "ok"}

imageLimitedResponse(ip) ==
  [NoEvent EXCEPT !.op = "image", !.ip = ip, !.limited = TRUE, !.status = 429,
     !.error = "Rate limit exceeded. Please wait a minute before trying again."]

imageFailedResponse(op, ip) ==
  [NoEvent EXCEPT !.op = op, !.ip = ip, !.status = 500, !.error = "Failed to generate image"]

\* the requests let through since the reset that set the time last
passedAfter(passed, last, last2) ==
  IF last2 = last THEN passed ELSE [ip \in RateIPs |-> 0]

\* POST from its entry to the first suspension (await request.json()):
\* resetRateLimit(), then either the 429 or the increment of the counter.
\* The identity of the client is no input of the code.
ImagePost(ip) ==
  LET rl == resetRateLimit(apiCallsCount, lastResetTime, now)
      passed == passedAfter(imagePassed, lastResetTime, rl.lastResetTime)
  IN /\ imageLimited(rl.apiCallsCount) \/ BagCardinality(imageCalls) < MaxInFlight
     /\ lastResetTime' = rl.lastResetTime
     /\ IF imageLimited(rl.apiCallsCount)
        THEN /\ apiCallsCount' = rl.apiCallsCount
             /\ event' = imageLimitedResponse(ip)
             /\ imagePassed' = passed
             /\ UNCHANGED imageCalls
        ELSE /\ apiCallsCount' = rl.apiCallsCount + 1
             /\ event' = [NoEvent EXCEPT !.op = "image", !.ip = ip]
             /\ imagePassed' = [passed EXCEPT ![ip] = @ + 1]
             /\ imageCalls' = addTo(imageCalls, [pc |-> "body", ip |-> ip])
     /\ UNCHANGED <<variant, apiKey, now, ticks, tokenCache, lruOrder, responseCache,
                    requests, background, admits, blockedUntil, probe>>

\* the body arrives: a body that is no JSON, or has no description, throws
\* into the catch; otherwise the call of getimg.ai starts
ImageBody(c, body) ==
  /\ c \in BagToSet(imageCalls)
  /\ c.pc = "body"
  /\ IF body = "ok"
     THEN /\ imageCalls' = addTo(removeFrom(imageCalls, c), [c EXCEPT !.pc = "fetch"])
          /\ event' = [NoEvent EXCEPT !.op = "imageBody", !.ip = c.ip]
     ELSE /\ imageCalls' = removeFrom(imageCalls, c)
          /\ event' = imageFailedResponse("imageBody", c.ip)
  /\ UNCHANGED <<variant, apiKey, now, ticks, tokenCache, lruOrder, responseCache,
                 requests, background, admits, blockedUntil, probe, apiCallsCount, lastResetTime,
                 imagePassed>>

\* getimg.ai answers: 200 with data.url (absent when the answer has none),
\* or the catch for a network error, a non-2xx status or a body that is no JSON
ImageReply(c, outcome) ==
  /\ c \in BagToSet(imageCalls)
  /\ c.pc = "fetch"
  /\ imageCalls' = removeFrom(imageCalls, c)
  /\ event' = IF outcome \in {"ok", "noUrl"}
              THEN [NoEvent EXCEPT !.op = "imageReply", !.ip = c.ip, !.status = 200,
                      !.result = IF outcome = "ok" THEN <<"url">> ELSE <<>>]
              ELSE imageFailedResponse("imageReply", c.ip)
  /\ UNCHANGED <<variant, apiKey, now, ticks, tokenCache, lruOrder, responseCache,
                 requests, background, admits, blockedUntil, probe, apiCallsCount, lastResetTime,
                 imagePassed>>

\* the requests of all clients let through since the last reset
passedTotal(passed) == passed["10.0.0.1"] + passed["10.0.0.2"]

ImageTick(d) == ticks < MaxTicks /\ advance(d)

(* ---------------------------- specification ---------------------------- *)
\* the steps of POST after the limiter, and of the revalidations
Handling ==
  \/ \E r \in BagToSet(requests), body \in Bodies(variant) : Body(r, body)
  \/ \E r \in BagToSet(requests), outcome \in Outcomes : Reply(r, outcome)
  \/ \E b \in BagToSet(background) : BgStart(b)
  \/ \E b \in BagToSet(background), outcome \in Outcomes : BgReply(b, outcome)

\* the search endpoint: limiter, validation, cache, upstream
Next ==
  \/ \E d \in PostTickSteps : PostTick(d)
  \/ \E ip \in IPs : Arrive(ip)
  \/ Handling

Spec == Init /\ [][Next]_vars

\* the cache and its producer under the requests the limiter lets through
NextCache ==
  \/ \E d \in TickSteps : Tick(d)
  \/ Admitted
  \/ Handling

SpecCache == Init /\ [][NextCache]_vars

\* the limiter on its own: calls of rateLimit by two identities
InitRate == Init /\ variant = "edge" /\ apiKey

NextRate ==
  \/ \E d \in RateTickSteps : RateTick(d)
  \/ \E ip \in RateIPs : Call(ip)

SpecRate == InitRate /\ [][NextRate]_vars

\* the endpoint of src/app/api/search/route.ts
InitLegacy == variant = "legacy" /\ Cold /\ probe = NoProbe

NextLegacy ==
  \/ \E d \in PostTickSteps : PostTick(d)
  \/ \E ip \in IPs : Arrive(ip)
  \/ \E r \in BagToSet(requests), body \in LegacyBodies : LegacyBody(r, body)
  \/ \E r \in BagToSet(requests), outcome \in Outcomes, clean \in BOOLEAN :
       LegacyReply(r, outcome, clean)

SpecLegacy == InitLegacy /\ [][NextLegacy]_vars

\* any of the three copies behind the limiter
InitAny == Init \/ InitLegacy

NextAny ==
  \/ \E d \in TickSteps : Tick(d)
  \/ Admitted
  \/ variant \in Variants /\ Handling
  \/ \E r \in BagToSet(requests), body \in LegacyBodies : LegacyBody(r, body)
  \/ \E r \in BagToSet(requests), outcome \in Outcomes, clean \in BOOLEAN :
       LegacyReply(r, outcome, clean)

SpecAny == InitAny /\ [][NextAny]_vars

\* the limiter with its store full: the first identity called rateLimit
\* once at time 0 and tokenCacheMax - 1 other identities after it
FillerIPs == {"10.1.0." \o ToString(i) : i \in 1..(tokenCacheMax - 1)}

fillerOrder == [i \in 1..(tokenCacheMax - 1) |-> "10.1.0." \o ToString(i)]

InitEvict ==
  /\ variant = "edge"
  /\ apiKey = TRUE
  /\ now = 0
  /\ ticks = 0
  /\ lruOrder = <<"10.0.0.1">> \o fillerOrder
  /\ tokenCache = [ip \in {"10.0.0.1"} \cup FillerIPs |-> [tokens |-> <<0>>, start |-> 0]]
  /\ responseCache = [k \in {} |-> 0]
  /\ requests = EmptyBag
  /\ background = EmptyBag
  /\ event = NoEvent
  /\ admits = [ip \in RateIPs |-> IF ip = "10.0.0.1" THEN <<0>> ELSE <<>>]
  /\ apiCallsCount = 0
  /\ lastResetTime = now
  /\ imageCalls = EmptyBag
  /\ imagePassed = [ip \in RateIPs |-> 0]
  /\ blockedUntil = [ip \in RateIPs |-> NoBlock]
  /\ probe = NoProbe

EvictTick(d) == ticks < MaxRateTicks \div 2 /\ advance(d)

NextEvict ==
  \/ \E d \in RateTickSteps : EvictTick(d)
  \/ \E ip \in RateIPs : Call(ip)

SpecEvict == InitEvict /\ [][NextEvict]_vars

\* requests that overlap: one more in flight, and one more revalidation
\* queued, than elsewhere, over jumps of a whole CACHE_TTL
InitOverlap == Init /\ apiKey

NextOverlap ==
  \/ \E d \in OverlapTickSteps : PostTick(d)
  \/ AdmittedUpTo(MaxInFlight + 1)
  \/ \E r \in BagToSet(requests), body \in Bodies(variant) :
       BodyUpTo(r, body, MaxBackground + 1)
  \/ \E r \in BagToSet(requests), outcome \in Outcomes : Reply(r, outcome)
  \/ \E b \in BagToSet(background) : BgStart(b)
  \/ \E b \in BagToSet(background), outcome \in Outcomes : BgReply(b, outcome)

SpecOverlap == InitOverlap /\ [][NextOverlap]_vars

\* the image endpoint under the requests of two clients
InitImage == Init /\ variant = "node" /\ apiKey

NextImage ==
  \/ \E d \in ImageTickSteps : ImageTick(d)
  \/ \E ip \in RateIPs : ImagePost(ip)
  \/ \E c \in BagToSet(imageCalls), body \in ImageBodies : ImageBody(c, body)
  \/ \E c \in BagToSet(imageCalls), outcome \in ImageOutcomes : ImageReply(c, outcome)

SpecImage == InitImage /\ [][NextImage]_vars

(* ----------------- normalizeQuery applied on its own ------------------- *)
\* Two spellings of one query: the words "hot pie", alone or followed by
\* the dietary filters "vg" and "low fat".  A spelling chooses the letter
\* case, the whitespace between words, around the query, after the commas
\* and inside the two-word filter, and the order of the filters.
upperChar(c) ==
  IF c \in Range(LowerCase)
  THEN UpperCase[CHOOSE i \in 1..26 : LowerCase[i] = c]
  ELSE c

toUpperCase(s) == [i \in 1..Len(s) |-> upperChar(s[i])]

cased(upper, s) == IF upper THEN toUpperCase(s) ELSE s

WordHot == <<"h", "o", "t">>
WordPie == <<"p", "i", "e">>
TermVg == <<"v", "g">>
TermLow == <<"l", "o", "w">>
TermFat == <<"f", "a", "t">>

Spellings ==
  [upper : BOOLEAN,
   gap : {<<" ">>, <<" ", " ">>, <<"\t">>},
   lead : {<<>>, <<" ">>},
   trail : {<<>>, <<" ">>, <<"\n">>},
   filtered : BOOLEAN,
   swapped : BOOLEAN,
   comma : {<<>>, <<" ">>},
   inner : {<<" ">>, <<" ", " ">>}]

\* without filters the choices about filters make no difference
isSpelling(sp) ==
  sp.filtered \/ (~sp.swapped /\ sp.comma = <<" ">> /\ sp.inner = <<" ">>)

filtersOf(sp) ==
  LET vg == cased(sp.upper, TermVg)
      lowFat == cased(sp.upper, TermLow) \o sp.inner \o cased(sp.upper, TermFat)
  IN IF sp.swapped THEN lowFat \o <<",">> \o sp.comma \o vg
     ELSE vg \o <<",">> \o sp.comma \o lowFat

\* the text the client sends: search-context.tsx joins the query and the
\* filters with " with dietary preferences: "
spell(sp) ==
  sp.lead \o cased(sp.upper, WordHot) \o sp.gap \o cased(sp.upper, WordPie)
    \o (IF sp.filtered THEN <<" ">> \o cased(sp.upper, FilterMarker) \o filtersOf(sp) ELSE <<>>)
    \o sp.trail

\* lower case, single spaces, nothing around, filters in the order "vg, low fat"
plainSpelling(filtered) ==
  [upper |-> FALSE, gap |-> <<" ">>, lead |-> <<>>, trail |-> <<>>, filtered |-> filtered,
   swapped |-> FALSE, comma |-> <<" ">>, inner |-> <<" ">>]

InitNorm ==
  /\ Loaded
  /\ apiKey
  /\ \E sp \in Spellings :
       /\ isSpelling(sp)
       /\ probe = [NoProbe EXCEPT !.op = "queries", !.q1 = spell(plainSpelling(sp.filtered)),
                                  !.q2 = spell(sp)]

Normalize ==
  /\ probe.op = "queries"
  /\ probe' = [probe EXCEPT !.op = "keys", !.k1 = normalizeQuery(variant, probe.q1),
                            !.k2 = normalizeQuery(variant, probe.q2)]
  /\ UNCHANGED <<blockedUntil, imageVars, variant, apiKey, now, ticks, tokenCache, lruOrder,
                 responseCache, requests, background, event, admits>>

NextNorm == Normalize

SpecNorm == InitNorm /\ [][NextNorm]_vars

(* ------------- normalizeQuery on queries of different classes ---------- *)
\* "hot pie" and queries that differ from it in more than letter case,
\* whitespace and the order of the filters: in punctuation, in a character
\* inside a word, or in the filters
StrangerQueries ==
  LET hotPie == spell(plainSpelling(FALSE))
      vg == <<" ">> \o FilterMarker \o TermVg
  IN {hotPie,
      toUpperCase(hotPie),
      hotPie \o <<"!">>,
      WordHot \o <<"-">> \o WordPie,
      WordHot \o WordPie,
      hotPie \o <<"?">> \o vg,
      hotPie \o vg,
      hotPie \o vg \o <<",">> \o TermFat}

\* the class of a query: its words in lower case with single spaces, and
\* its filter terms, likewise, in sorted order
classOf(query) ==
  LET plain == collapseSpaces(toLowerCase(trim(query)))
      m == filterMatchIndex(plain)
      terms == split(SubSeq(plain, m + Len(FilterMarker), Len(plain)))
  IN IF m = 0
     THEN [main |-> plain, filters |-> <<>>]
     ELSE [main |-> trim(SubSeq(plain, 1, m - 1)),
           filters |-> sort([i \in 1..Len(terms) |-> trim(terms[i])])]

InitKeys ==
  /\ variant \in Variants \cup {"legacy"}
  /\ Cold
  /\ \E q1 \in StrangerQueries, q2 \in StrangerQueries :
       probe = [NoProbe EXCEPT !.op = "strangers", !.q1 = q1, !.q2 = q2]

\* the cache keys of the two queries
Keys ==
  /\ probe.op = "strangers"
  /\ probe' = [probe EXCEPT !.op = "strangerKeys", !.k1 = normalizeQuery(variant, probe.q1),
                            !.k2 = normalizeQuery(variant, probe.q2)]
  /\ UNCHANGED <<blockedUntil, imageVars, variant, apiKey, now, ticks, tokenCache, lruOrder,
                 responseCache, requests, background, event, admits>>

NextKeys == Keys

SpecKeys == InitKeys /\ [][NextKeys]_vars

(* ----------------- parseRecipeData applied on its own ------------------ *)
\* The JSON texts given to the parser: arrays of up to MaxBatch recipe
\* objects, and two texts that are not arrays; each bare, inside a code
\* fence, inside prose without brackets, or both.
Batches == UNION {[1..n -> InputRecipes] : n \in 0..MaxBatch}

JsonTexts == {serialize(b) : b \in Batches} \cup {ContentObject, ContentGarbage}

Wraps == {"bare", "fenced", "prose", "fencedProse"}

wrapped(wrap, text) ==
  CASE wrap = "bare" -> text
    [] wrap = "fenced" -> <<"FENCE_JSON", "\n">> \o text \o <<"\n", "FENCE">>
    [] wrap = "prose" -> <<"x", " ">> \o text \o <<" ", "x">>
    [] wrap = "fencedProse" ->
         <<"x", "\n", "FENCE_JSON", "\n">> \o text \o <<"\n", "FENCE", "\n", "x">>

NoParse == [ok |-> FALSE, recipes |-> <<>>]

InitParse ==
  /\ Loaded
  /\ variant = "edge"
  /\ apiKey
  /\ \E text \in JsonTexts, wrap \in Wraps :
       probe = [op |-> "raw", wrap |-> wrap, json |-> text, raw |-> wrapped(wrap, text),
                parsed |-> NoParse, plain |-> NoParse, again |-> NoParse]

\* an array written with a comma after its last element
withTrailingComma(text) == SubSeq(text, 1, Len(text) - 1) \o <<",", "]">>

\* a non-empty array of recipes whose only fault is that comma
InitParseComma ==
  /\ Loaded
  /\ variant = "edge"
  /\ apiKey
  /\ \E b \in Batches :
       /\ Len(b) > 0
       /\ probe = [op |-> "rawComma", wrap |-> "bare", json |-> serialize(b),
                   raw |-> withTrailingComma(serialize(b)),
                   parsed |-> NoParse, plain |-> NoParse, again |-> NoParse]

\* both parsers on the text with the comma; again is the parser on what
\* sanitizeApiResponse makes of the text
ParseComma ==
  /\ probe.op = "rawComma"
  /\ probe' = [probe EXCEPT !.op = "parsedComma", !.parsed = parseRecipeData(probe.raw),
                            !.plain = parseRecipeDataPlain(probe.raw),
                            !.again = parseRecipeData(sanitizeApiResponse(probe.raw))]
  /\ UNCHANGED <<blockedUntil, imageVars, variant, apiKey, now, ticks, tokenCache, lruOrder,
                 responseCache, requests, background, event, admits>>

\* both parsers on the raw text
Parse ==
  /\ probe.op = "raw"
  /\ probe' = [probe EXCEPT !.op = "parsed", !.parsed = parseRecipeData(probe.raw),
                            !.plain = parseRecipeDataPlain(probe.raw)]
  /\ UNCHANGED <<blockedUntil, imageVars, variant, apiKey, now, ticks, tokenCache, lruOrder,
                 responseCache, requests, background, event, admits>>

\* the batch is written out and parsed once more
Reparse ==
  /\ probe.op = "parsed"
  /\ probe.parsed.ok
  /\ probe' = [probe EXCEPT !.op = "reparsed",
                            !.again = parseRecipeData(serialize(probe.parsed.recipes))]
  /\ UNCHANGED <<blockedUntil, imageVars, variant, apiKey, now, ticks, tokenCache, lruOrder,
                 responseCache, requests, background, event, admits>>

NextParse == Parse \/ Reparse \/ ParseComma

InitParseAny == InitParse \/ InitParseComma

SpecParse == InitParseAny /\ [][NextParse]_vars

TypeOK ==
  /\ variant \in Variants \cup {"legacy"}
  /\ apiKey \in BOOLEAN
  /\ now \in Nat
  /\ ticks \in Nat
  /\ DOMAIN tokenCache \subseteq RateIPs \cup FillerIPs
  /\ inFlight <= MaxInFlight + 1
  /\ queued <= MaxBackground + 1
  /\ probe.op \in {"none", "queries", "keys", "raw", "parsed", "reparsed", "rawComma", "parsedComma",
                  "strangers", "strangerKeys"}

(* ------------------------------ properties ----------------------------- *)
\* in requests2 no more records wait for the upstream than in requests1
noNewFetch(requests1, requests2) ==
  \A r \in BagToSet(requests2) :
    r.pc = "fetch" => CopiesIn(r, requests2) <= CopiesIn(r, requests1)

\* C1: a call rateLimit(ip) made when ip already has 5 admissions younger
\* than 60000 ms is limited and its resetTime is the oldest of them plus
\* 60000; no identity ever has more than 5 admissions within 60000 ms.
C1_SlidingWindow ==
  [][\A ip \in RateIPs :
       /\ Len(admits'[ip]) <= 5
       /\ (event'.op = "rateLimit" /\ event'.ip = ip /\ Len(admits[ip]) = 5)
            => /\ event'.limited
               /\ event'.reset = admits[ip][1] + 60000
               /\ admits'[ip] = admits[ip]]_vars

\* a limited call whose window began before the call
C1_Witness ==
  /\ event.op = "rateLimit"
  /\ event.limited
  /\ Len(admits[event.ip]) = 5
  /\ admits[event.ip][1] < now
  /\ event.reset = admits[event.ip][1] + 60000

\* C2: a lookup of a key whose entry has expiry > now answers 200 with
\* X-Cache HIT and the cached payload, starts no producer in the foreground
\* or in the background, and leaves the cache as it is.
C2_FreshHit ==
  [][\A k \in DOMAIN responseCache :
       (event'.op = "lookup" /\ event'.key = k /\ responseCache[k].expiry > now)
         => /\ event'.status = 200
            /\ event'.xcache = "HIT"
            /\ event'.result = responseCache[k].result
            /\ event'.producer = NoProduct
            /\ responseCache' = responseCache
            /\ background' = background
            /\ noNewFetch(requests, requests')]_vars

\* a HIT on an entry that is still fresh some time after it was written
C2_Witness ==
  /\ event.op = "lookup"
  /\ event.xcache = "HIT"
  /\ event.key \in DOMAIN responseCache
  /\ responseCache[event.key].expiry > now
  /\ now > 0
  /\ background = EmptyBag

\* C3: a lookup of a key whose entry has now - CACHE_TTL < expiry <= now
\* answers 200 with X-Cache HIT and the old payload without waiting for the
\* upstream, and schedules exactly one background run of the producer.
C3_StaleHit ==
  [][\A k \in DOMAIN responseCache :
       (/\ event'.op = "lookup"
        /\ event'.key = k
        /\ responseCache[k].expiry <= now
        /\ responseCache[k].expiry > now - CACHE_TTL)
         => /\ event'.status = 200
            /\ event'.xcache = "HIT"
            /\ event'.result = responseCache[k].result
            /\ event'.producer = NoProduct
            /\ responseCache' = responseCache
            /\ noNewFetch(requests, requests')
            /\ BagCardinality(background') = BagCardinality(background) + 1
            /\ \E b \in BagToSet(background') :
                 /\ b.pc = "timer"
                 /\ b.key = k
                 /\ background' = addTo(background, b)]_vars

\* a HIT on a stale entry, its revalidation waiting for its timer
C3_Witness ==
  /\ event.op = "lookup"
  /\ event.xcache = "HIT"
  /\ event.key \in DOMAIN responseCache
  /\ responseCache[event.key].expiry <= now
  /\ \E b \in BagToSet(background) : b.pc = "timer" /\ b.key = event.key

\* C4: a lookup of a key that is MISSING or EXPIRED never answers with the
\* old payload: it runs the producer once and waits for it; when the
\* producer succeeds the answer is 200 with X-Cache MISS and the produced
\* value, and the entry is that value with expiry = time of the lookup +
\* CACHE_TTL.
C4_MissFetches ==
  [][/\ (/\ event'.op = "lookup"
         /\ \/ event'.key \notin DOMAIN responseCache
            \/ responseCache[event'.key].expiry <= now - CACHE_TTL)
          => /\ event'.status # 200
             /\ event'.xcache = ""
             /\ responseCache' = responseCache
             /\ background' = background
             /\ \/ /\ event'.producer.produced = "failed"
                   /\ noNewFetch(requests, requests')
                \/ /\ event'.status = 0
                   /\ \E r \in BagToSet(requests) :
                        /\ r.pc = "body"
                        /\ requests' = addTo(removeFrom(requests, r),
                                             [pc |-> "fetch", key |-> event'.key, now0 |-> now])
     /\ \A r \in BagToSet(requests) :
          (/\ r.pc = "fetch"
           /\ event'.op = "reply"
           /\ requests' = removeFrom(requests, r)
           /\ event'.producer.produced = "ok")
            => /\ event'.status = 200
               /\ event'.xcache = "MISS"
               /\ event'.result = event'.producer.value
               /\ r.key \in DOMAIN responseCache'
               /\ responseCache'[r.key] =
                    [result |-> event'.producer.value, expiry |-> r.now0 + CACHE_TTL]]_vars

\* a MISS answered for a lookup made after the clock had passed two life
\* times, the entry written with the life time counted from that lookup
C4_Witness ==
  /\ event.op = "reply"
  /\ event.xcache = "MISS"
  /\ now >= 2 * CACHE_TTL
  /\ event.key \in DOMAIN responseCache
  /\ responseCache[event.key] = [result |-> event.result, expiry |-> now + CACHE_TTL]

\* C5: when the producer awaited by a request throws, the answer is 500 and
\* the cache is left as it was.
C5_ForegroundFailure ==
  [][(event'.op \in {"lookup", "reply"} /\ event'.producer.produced = "failed")
       => /\ event'.status = 500
          /\ event'.xcache = ""
          /\ event'.result = <<>>
          /\ responseCache' = responseCache]_vars

\* a 500 after the upstream failed, the expired entry still in the cache
C5_Witness ==
  /\ event.op = "reply"
  /\ event.status = 500
  /\ event.producer.produced = "failed"
  /\ event.key \in DOMAIN responseCache
  /\ responseCache[event.key].expiry <= now - CACHE_TTL

\* C6: when a background revalidation throws, the entry stays as it is and
\* no request is answered or disturbed by it.
C6_BackgroundFailure ==
  [][(event'.op \in {"bgStart", "bgReply"} /\ event'.producer.produced = "failed")
       => /\ responseCache' = responseCache
          /\ requests' = requests
          /\ event'.status = 0]_vars

\* a revalidation has failed next to a request in flight; the stale entry
\* is still there
C6_Witness ==
  /\ event.op = "bgReply"
  /\ event.producer.produced = "failed"
  /\ event.key \in DOMAIN responseCache
  /\ responseCache[event.key].expiry <= now
  /\ requests # EmptyBag

\* C7: when the revalidation started by a stale hit gets a value from the
\* upstream, the entry becomes that value with expiry = time of completion
\* + CACHE_TTL, which is later than the expiry the stale hit saw, so the
\* entry is FRESH from then on.
C7_Revalidated ==
  [][\A b \in BagToSet(background) :
       (/\ b.pc = "fetch"
        /\ event'.op = "bgReply"
        /\ background' = removeFrom(background, b)
        /\ event'.producer.produced = "ok")
         => /\ b.key \in DOMAIN responseCache'
            /\ responseCache'[b.key] =
                 [result |-> event'.producer.value, expiry |-> now + CACHE_TTL]
            /\ responseCache'[b.key].expiry > b.seen
            /\ lookupState(responseCache', b.key, now') = "FRESH"]_vars

\* a revalidation has replaced the entry it was started for
C7_Witness ==
  /\ event.op = "bgReply"
  /\ event.producer.produced = "ok"
  /\ event.key \in DOMAIN responseCache
  /\ responseCache[event.key] = [result |-> event.producer.value, expiry |-> now + CACHE_TTL]
  /\ now > 0

\* C8: two spellings of a query that differ only in letter case, in
\* whitespace or in the order of the filter terms get the same cache key.
C8_SameKey == probe.op = "keys" => probe.k1 = probe.k2

\* C9: every payload in the cache and every result of a 200 is text that
\* parses as a JSON array with at least one element.
C9_OnlyValidArrays ==
  /\ \A k \in DOMAIN responseCache : isNonEmptyArray(responseCache[k].result)
  /\ event.status = 200 => isNonEmptyArray(event.result)

\* C10: when rateLimit reports limited, POST answers 429 with
\* X-RateLimit-Limit 5, X-RateLimit-Remaining 0 and X-RateLimit-Reset =
\* resetTime, and does nothing else: no cache lookup or write, no
\* revalidation, no upstream call.
C10_RateLimited ==
  [][\A ip \in IPs :
       (event'.op = "arrive" /\ event'.ip = ip /\ rateLimitResult(tokenCache, ip, now).limited)
         => /\ event'.status = 429
            /\ event'.limitHdr = 5
            /\ event'.remaining = 0
            /\ event'.reset = rateLimitResult(tokenCache, ip, now).resetTime
            /\ event'.key = <<>>
            /\ event'.producer = NoProduct
            /\ responseCache' = responseCache
            /\ background' = background
            /\ requests' = requests]_vars

\* a 429 given while the cache holds an entry and the window is under way
C10_Witness ==
  /\ event.op = "arrive"
  /\ event.status = 429
  /\ event.reset < now + interval
  /\ DOMAIN responseCache # {}

\* C11: every failure of the upstream call or of the validation of its
\* output during a foreground request is answered with status 500, and the
\* request makes no second attempt.
C11_FailuresAnswered500 ==
  [][(event'.op = "reply" /\ event'.producer.produced = "failed")
       => /\ event'.status = 500
          /\ noNewFetch(requests, requests')
          /\ BagCardinality(requests') = BagCardinality(requests) - 1]_vars

C13_EmptyOrNotArrayFails ==
  (probe.op = "parsed" /\ JSONparse(probe.json).ok /\ ~isNonEmptyArray(probe.json))
    => ~probe.parsed.ok /\ ~probe.plain.ok

\* C14: for a text that is a JSON array of recipe objects, parsing the
\* written-out result of parseRecipeData gives that result again.
C14_ParseIdempotent ==
  (probe.op = "reparsed" /\ probe.wrap = "bare") => probe.again = probe.parsed

\* C15 as claimed: for every non-empty JSON array of recipe objects, the
\* array inside a code fence and/or inside prose without brackets parses to
\* what the array itself parses to.
C15_WrappedSameAsBare ==
  (probe.op = "parsed" /\ probe.wrap # "bare" /\ isNonEmptyArray(probe.json))
    => probe.parsed.ok /\ probe.parsed = parseRecipeData(probe.json)

\* C15: for every non-empty JSON array of recipe objects none of whose
\* strings contains the code-fence marker, the array inside a code fence
\* and/or inside prose without brackets parses to what the array itself
\* parses to, the absent fields filled in: the array of the single object
\* with title "A" gives id "recipe-1", title "A", ingredients [].
C15_WrappedSameUnlessFenceInside ==
  (/\ probe.op = "parsed"
   /\ probe.wrap # "bare"
   /\ isNonEmptyArray(probe.json)
   /\ stripFences(probe.json) = probe.json)
    => /\ probe.parsed.ok
       /\ probe.parsed = parseRecipeData(probe.json)
       /\ Len(probe.parsed.recipes) = JSONparse(probe.json).length
       /\ probe.json = serialize(<<RecipeTitleOnly>>)
            => /\ probe.parsed.recipes[1].id = "recipe-1"
               /\ probe.parsed.recipes[1].title = "A"
               /\ probe.parsed.recipes[1].ingredients = "[]"

\* the fenced array of the object with only a title, inside prose, parsed
C15_Witness ==
  /\ probe.op = "parsed"
  /\ probe.wrap = "fencedProse"
  /\ probe.json = serialize(<<RecipeTitleOnly>>)
  /\ probe.parsed.ok
  /\ Len(probe.parsed.recipes) = 1

\* C16: the image endpoint has one fixed-window counter: at most 10
\* requests, of all clients together, are let through between two resets;
\* a request is answered 429 exactly when 10 have been let through since
\* the last reset and fewer than 60000 ms have passed since it; the first
\* request at least 60000 ms after the last reset resets the counter (and
\* is let through as the first of the new window); no other step resets it.
C16_GlobalFixedWindow ==
  /\ [](passedTotal(imagePassed) <= 10 /\ apiCallsCount = passedTotal(imagePassed))
  /\ [][/\ event'.op = "image" =>
            LET due == now - lastResetTime >= 60000
            IN /\ event'.status = 429 <=> (~due /\ passedTotal(imagePassed) = 10)
               /\ event'.status = 429 => UNCHANGED <<imageCalls, apiCallsCount>>
               /\ event'.status # 429 =>
                    BagCardinality(imageCalls') = BagCardinality(imageCalls) + 1
               /\ due => /\ lastResetTime' = now
                         /\ passedTotal(imagePassed') = 1
                         /\ apiCallsCount' = 1
               /\ ~due => lastResetTime' = lastResetTime
        /\ event'.op # "image" => UNCHANGED <<lastResetTime, apiCallsCount, imagePassed>>]_vars

\* a client that has been let through once in the window is answered 429
\* because of the requests of the other one, in a window opened by a reset
C16_Witness ==
  /\ event.op = "image"
  /\ event.status = 429
  /\ lastResetTime > 0
  /\ imagePassed[event.ip] = 1
  /\ passedTotal(imagePassed) = 10

\* C17: requests for one cache key that overlap are coalesced: no two of
\* them wait for the upstream at the same time.
C17_Coalesced ==
  \A r \in BagToSet(requests) : r.pc = "fetch" => waiting(requests, "fetch", r.key) <= 1

\* C18: every hit on a STALE entry answers 200 with the stale payload,
\* leaves the entry alone and queues one more revalidation of its key, also
\* when revalidations of that key are queued or running already; a
\* revalidation that starts takes one queued revalidation away, and no
\* other step queues one, so no more revalidations start than stale hits
\* were served.
C18_EachStaleHitRevalidates ==
  [][LET staleHit == /\ event'.op = "lookup"
                     /\ event'.xcache = "HIT"
                     /\ lookupState(responseCache, event'.key, now) = "STALE"
     IN /\ staleHit =>
             /\ event'.status = 200
             /\ event'.result = responseCache[event'.key].result
             /\ responseCache' = responseCache
             /\ waiting(background', "timer", event'.key)
                  = waiting(background, "timer", event'.key) + 1
             /\ queued' = queued + 1
        /\ event'.op = "bgStart" =>
             /\ waiting(background', "timer", event'.key)
                  = waiting(background, "timer", event'.key) - 1
             /\ queued' <= queued
        /\ ~staleHit => queued' <= queued]_vars

\* two stale hits on one key, one after the other, have queued two
\* revalidations of it before either has started
C18_Witness ==
  /\ event.op = "lookup"
  /\ event.xcache = "HIT"
  /\ lookupState(responseCache, event.key, now) = "STALE"
  /\ waiting(background, "timer", event.key) = 2

\* C19: a producer that returns a value in the foreground or in the
\* background leaves, for its key, exactly the pair of its value and its
\* expiry (the time of the lookup + CACHE_TTL in the foreground, the time of
\* completion + CACHE_TTL in the background), whatever entry was there and
\* whatever other fetches of the key are under way; the other keys keep
\* their entries, and no other step changes the cache.
C19_LastWriterWins ==
  [][LET written(expiry) ==
           [k \in DOMAIN responseCache \cup {event'.key} |->
              IF k = event'.key
              THEN [result |-> event'.producer.value, expiry |-> expiry]
              ELSE responseCache[k]]
     IN /\ (event'.op = "reply" /\ event'.producer.produced = "ok") =>
             \E r \in BagToSet(requests) :
               /\ r.pc = "fetch"
               /\ r.key = event'.key
               /\ requests' = requests (-) SetToBag({r})
               /\ responseCache' = written(r.now0 + CACHE_TTL)
        /\ (event'.op = "bgReply" /\ event'.producer.produced = "ok") =>
             responseCache' = written(now + CACHE_TTL)
        /\ ~(event'.op \in {"reply", "bgReply"} /\ event'.producer.produced = "ok") =>
             responseCache' = responseCache]_vars

\* a foreground fetch has written the entry of a key while a revalidation
\* of the same key still waits for the upstream
C19_Witness ==
  /\ event.op = "reply"
  /\ event.producer.produced = "ok"
  /\ responseCache[event.key].result = event.producer.value
  /\ waiting(background, "fetch", event.key) >= 1

\* C20: the call of the upstream is bound to a hard deadline of at most
\* 30000 ms: no request is still waiting for the upstream later than that
\* after its fetch started (by then it has been aborted and answered 500).
C20_UpstreamDeadline ==
  \A r \in BagToSet(requests) : r.pc = "fetch" => now - r.now0 <= CLIENT_TIMEOUT

\* C21: the store of the limiter never holds more than 500 identities;
\* a call by an identity that is not stored, made when 500 are, removes
\* exactly the identity touched least recently and stores the caller with
\* a history of this one call; no other call removes an identity; every
\* stored list has at most 5 timestamps and every admitted call reports a
\* remaining value in 0..4.
C21_BoundedStore ==
  /\ [](/\ Cardinality(DOMAIN tokenCache) <= 500
        /\ \A ip \in DOMAIN tokenCache : Len(tokenCache[ip].tokens) <= 5)
  /\ [][event'.op = "rateLimit" =>
          /\ ~event'.limited => event'.remaining \in 0..4
          /\ IF event'.ip \notin DOMAIN tokenCache /\ Cardinality(DOMAIN tokenCache) = 500
             THEN \E e \in DOMAIN tokenCache :
                    /\ DOMAIN tokenCache' = (DOMAIN tokenCache \ {e}) \cup {event'.ip}
                    /\ e = lruOrder[1]
                    /\ \A k \in DOMAIN tokenCache : tokenCache[e].start <= tokenCache[k].start
                    /\ tokenCache'[event'.ip].tokens = <<now>>
                    /\ event'.remaining = 4
             ELSE DOMAIN tokenCache \subseteq DOMAIN tokenCache']_vars

\* the store is full, and an identity that was evicted from it has come
\* back with a history of one call although it made more within the window
C21_Witness ==
  /\ event.op = "rateLimit"
  /\ Cardinality(DOMAIN tokenCache) = 500
  /\ event.ip \in DOMAIN tokenCache
  /\ Len(tokenCache[event.ip].tokens) = 1
  /\ Len(admits[event.ip]) >= 2
  /\ "10.1.0.1" \notin DOMAIN tokenCache

\* C22: in every batch parseRecipeData returns, no two recipes have the
\* same id, whether the ids came with the recipes or from their positions.
C22_DistinctIds ==
  probe.op = "parsed" =>
    /\ \A i, j \in 1..Len(probe.parsed.recipes) :
         probe.parsed.recipes[i].id = probe.parsed.recipes[j].id => i = j
    /\ \A i, j \in 1..Len(probe.plain.recipes) :
         probe.plain.recipes[i].id = probe.plain.recipes[j].id => i = j

\* C23: a JSON array of recipes that is invalid only because of a comma
\* before its closing bracket is parsed into the batch of the array
\* without that comma.
C23_TrailingCommaRepaired ==
  probe.op = "parsedComma" =>
    /\ probe.parsed.ok
    /\ probe.parsed = parseRecipeData(probe.json)

\* C24: two queries get the same cache key only if they are of one class,
\* that is, differ in letter case, whitespace or the order of the filter
\* terms only.
C24_KeyIdentifiesClass ==
  (probe.op = "strangerKeys" /\ probe.k1 = probe.k2)
    => classOf(probe.q1) = classOf(probe.q2)

\* C25: the body of the response to an upstream failure (no connection,
\* a status that is not 2xx, an answer that is no JSON) does not depend on
\* what the failure was: two such responses, one after the other, have
\* the same error and details.
C25_SanitizedBody ==
  [][LET upstreamFailed(e) ==
           /\ e.op = "reply"
           /\ e.producer.produced = "failed"
           /\ e.producer.message \in
                {EdgeNetworkMessage, EdgeEnvelopeMessage, NodeNetworkMessage, NodeEnvelopeMessage}
                  \cup {EdgeHttpMessage(st) : st \in UpstreamStatuses}
                  \cup {NodeHttpMessage(st) : st \in UpstreamStatuses}
     IN (upstreamFailed(event) /\ upstreamFailed(event'))
          => /\ event'.error = event.error
             /\ event'.details = event.details]_vars

\* C26: the limiter is asked first.  A request enters the handler only by
\* an admission, which counts against its identity at once; what happens
\* to it afterwards (a 400, a hit, a miss, a failure) gives nothing back;
\* and a request of an identity with 5 admissions inside the window is
\* answered 429 before its body is read, whatever the cache holds.
C26_AdmissionFirst ==
  [][/\ \A ip \in IPs :
          (event'.op = "arrive" /\ event'.ip = ip) =>
            IF Len(admits[ip]) = 5
            THEN /\ event'.status = 429
                 /\ requests' = requests
                 /\ admits' = admits
            ELSE /\ event'.status = 0
                 /\ admits'[ip] = Append(admits[ip], now)
                 /\ Len(tokenCache'[ip].tokens) = Len(admits[ip]) + 1
                 /\ inFlight' = inFlight + 1
     /\ inFlight' > inFlight => (event'.op = "arrive" /\ ~event'.limited)
     /\ event'.op \in {"body", "lookup", "reply"} =>
          /\ admits' = admits
          /\ tokenCache' = tokenCache]_vars

\* a sixth request inside the window is answered 429 while the cache
\* holds a fresh entry
C26_Witness ==
  /\ event.op = "arrive"
  /\ event.status = 429
  /\ Len(admits[event.ip]) = 5
  /\ \E k \in DOMAIN responseCache : lookupState(responseCache, k, now) = "FRESH"

\* C27: a rejected call of rateLimit stores no timestamp and drops none,
\* and reports as resetTime the oldest stored timestamp + 60000, which lies
\* ahead; the first call of an identity after a rejection that reported
\* resetTime R is admitted if it comes at R or later.
C27_BlockEndsAtReset ==
  [][\A ip \in RateIPs :
       (event'.op = "rateLimit" /\ event'.ip = ip) =>
         /\ event'.limited =>
              /\ ip \in DOMAIN tokenCache
              /\ tokenCache'[ip].tokens = tokenCache[ip].tokens
              /\ admits' = admits
              /\ event'.reset = tokenCache[ip].tokens[1] + 60000
              /\ now < event'.reset
              /\ blockedUntil'[ip].reset = event'.reset
         /\ ( /\ blockedUntil[ip].reset # NoHeader
              /\ blockedUntil[ip].admitted = NoHeader
              /\ now >= blockedUntil[ip].reset ) =>
              /\ ~event'.limited
              /\ admits'[ip] = Append(admits[ip], now)
              /\ blockedUntil'[ip].admitted = now]_vars

\* an identity has been admitted at the very time its rejection gave as
\* resetTime, by its first call since the rejection
C27_Witness ==
  \E ip \in RateIPs :
    /\ event.op = "rateLimit"
    /\ event.ip = ip
    /\ ~event.limited
    /\ blockedUntil[ip].reset = now
    /\ blockedUntil[ip].admitted = now
    /\ admits[ip] = <<now>>

\* C28: an entry of tokenCache that has expired (more than 60000 ms since
\* its last set) holds only timestamps at least 60000 ms old, and a call of
\* rateLimit returns and stores what it would with a store that never
\* expires: expiry of the entry admits nobody the window would reject.
C28_ExpiryKeepsWindow ==
  /\ [](\A ip \in DOMAIN tokenCache :
          LET entry == tokenCache[ip]
          IN /\ \A i \in DOMAIN entry.tokens : entry.tokens[i] <= entry.start
             /\ now - entry.start > 60000 =>
                  \A i \in DOMAIN entry.tokens : now - entry.tokens[i] >= 60000)
  /\ [][\A ip \in DOMAIN tokenCache :
          (event'.op = "rateLimit" /\ event'.ip = ip) =>
            LET kept == SelectSeq(tokenCache[ip].tokens, LAMBDA time : time > now - 60000)
            IN /\ event'.limited = (Len(kept) >= 5)
               /\ tokenCache'[ip].tokens = IF Len(kept) >= 5 THEN kept ELSE Append(kept, now)
               /\ tokenCache'[ip].start = now
               /\ Len(admits'[ip]) <= 5]_vars

\* an identity was rejected with resetTime R and called again at R + 60000
\* or later, when its entry (last set before R) had expired: it is admitted
C28_Witness ==
  \E ip \in DOMAIN tokenCache :
    /\ event.op = "rateLimit"
    /\ event.ip = ip
    /\ ~event.limited
    /\ tokenCache[ip].tokens = <<now>>
    /\ blockedUntil[ip].admitted = now
    /\ now - blockedUntil[ip].reset >= 60000

====
